---------------------------- MODULE Spec2Model ----------------------------
(***************************************************************************)
(* The 1&1 Ansible modules oneandone_block_storage, oneandone_shared_      *)
(* storage and oneandone_ssh_key as a state machine.  One behaviour is one *)
(* invocation of one module: the parameters, the check-mode flag and the   *)
(* provider's resources are chosen by Init, every remote call the module   *)
(* issues is appended to `calls`, and the invocation ends with exit_json   *)
(* or fail_json.                                                           *)
(*                                                                         *)
(* Strings are opaque, so identifiers are small integers: a resource named *)
(* n has the id IdOf(n), and no id is a name.  datacenter_id, public_key   *)
(* and api_url are handed to the SDK unchanged and decide no branch; they  *)
(* are left out.  The SDK import is taken to have succeeded.               *)
(***************************************************************************)
EXTENDS Integers, Sequences, FiniteSets, TLC

\* ------------------------------------------------------------ bounds
\* Number of distinct resource names (and so of resource ids).
MaxName == 1
\* Largest wait_timeout and wait_interval, in seconds.
MaxWait == 2

\* ------------------------------------------------------------ values
\* Python's None, for a parameter that was not given.
None == -1

\* Python truthiness of a str or int value: None, "" and 0 are false.
Truthy(v) == v # None /\ v # 0

Names == 1..MaxName
IdOf(n) == MaxName + n
Ids == {IdOf(n) : n \in Names}
\* The id the provider gives a resource it creates.
FreshId == 2 * MaxName + 1
\* What a caller may give as an identifier (id or name), or leave out.
OptIdents == {None} \cup Names \cup Ids
OptNames == {None} \cup Names
\* One token stands for any given string (auth_token, description, password,
\* a server id).
Given == 1
OptGiven == {None, Given}

\* A value of the local variable that holds the resource (block_storage,
\* shared_storage, ssh_key): a dict snapshot, None, or the list that the
\* change-password call answers with.
Snapshot(i, n) == [type |-> "dict", id |-> i, name |-> n]
NoneRes == [type |-> "NoneType", id |-> None, name |-> None]
AccessList == [type |-> "list", id |-> None, name |-> None]

\* x['id'] raises TypeError / KeyError unless x is a dict snapshot.
Subscriptable(r) == r.type = "dict"

\* The value reported as `changed`: its Python type and its truthiness.
PyBool(b) == [type |-> "bool", truth |-> b]
PyNone == [type |-> "NoneType", truth |-> FALSE]
PyStr(s) == IF s = None THEN PyNone ELSE [type |-> "str", truth |-> TRUE]
PyList(l) == [type |-> "list", truth |-> l # <<>>]
PyDict(r) == IF r.type = "NoneType" THEN PyNone ELSE [type |-> r.type, truth |-> TRUE]
Unset == [type |-> "unset", truth |-> FALSE]

\* ------------------------------------------------------------ state
VARIABLES
    kind,        \* which module runs: block_storage, shared_storage, ssh_key
    params,      \* module.params
    check_mode,  \* module.check_mode
    before,      \* the provider's resources of this kind before the invocation
    resources,   \* the provider's resources of this kind, now
    calls,       \* the remote calls issued so far, in order
    pc,          \* the position in the module's code
    res,         \* the local block_storage / shared_storage / ssh_key
    changed,     \* the local `changed`
    elapsed,     \* seconds the completion waiter has slept
    error,       \* the exception raised in this invocation, if any
    exit,        \* how the invocation ended
    waits,       \* the calls of the completion waiter so far, in order
    dry          \* how the check-mode run of the same task ended, if one was made

input == <<kind, params, check_mode, before>>
vars == <<kind, params, check_mode, before, resources, calls, pc, res, changed, elapsed, error, exit, waits, dry>>

Running == [code |-> "running", changed |-> Unset, msg |-> "", resource |-> NoneRes]

\* ------------------------------------------------------------ remote calls
NoArgs == [id |-> None, name |-> None, description |-> None, size |-> None, server_id |-> None, servers |-> <<>>, password |-> None]

Call(op, args) == [op |-> op, args |-> args]

MutatingOps == {
    "create_block_storage", "modify_block_storage", "attach_block_storage", "detach_block_storage", "delete_block_storage",
    "create_shared_storage", "modify_shared_storage", "change_password", "attach_server_shared_storage", "detach_server_shared_storage", "delete_shared_storage",
    "create_ssh_key", "modify_ssh_key", "delete_ssh_key"}

Mutating(c) == c.op \in MutatingOps

Issue(c) == calls' = Append(calls, c)

\* The resource of the provider with id i, if there is one.
Existing(i) == {r \in resources : r.id = i}

\* ------------------------------------------------------------ module_utils
\* get_block_storage / get_shared_storage / get_ssh_key: the resources that
\* the identifier names, by id or by name, or None.
Resolver(ident) ==
    LET found == {r \in resources : ident \in {r.id, r.name}}
    IN  IF found = {} THEN {NoneRes} ELSE found

\* AnsibleModule.exit_json and fail_json end the process: SystemExit is no
\* Exception, so no `except Exception` of the module catches it.
exit_json(c, r) ==
    /\ exit' = [code |-> "exit_json", changed |-> c, msg |-> "", resource |-> r]
    /\ pc' = "exited"

fail_json(m) ==
    /\ exit' = [code |-> "fail_json", changed |-> Unset, msg |-> m, resource |-> NoneRes]
    /\ pc' = "exited"

Goto(l) == pc' = l /\ UNCHANGED exit

\* Raise with the handler swallowing the exception and returning.
RaiseSwallowed(e) == error' = e /\ Goto("return")

\* An exception raised under `try: ... except Exception as ex:
\* module.fail_json(msg=str(ex))`.
Raise(e) == error' = e /\ fail_json(e)

\* Whether parameter f was asked for.
Requested(p, f) ==
    CASE f \in {"attach", "detach"} -> p[f]
      [] f = "servers" -> p[f] # <<>>
      [] OTHER -> p[f] # None

\* AnsibleModule's mutually_exclusive check: two parameters of one group asked for.
check_mutually_exclusive(spec, p) ==
    \E g \in spec : Cardinality({f \in g : Requested(p, f)}) > 1

\* AnsibleModule's required_together check: the first parameter of a group
\* asked for without the rest.
check_required_together(spec, p) ==
    \E g \in spec : Requested(p, g[1]) /\ \E j \in 2..Len(g) : ~Requested(p, g[j])

AnsibleModule(excl, together) ==
    /\ pc = "AnsibleModule"
    /\ IF check_mutually_exclusive(excl, params)
         THEN fail_json("parameters are mutually exclusive")
         ELSE IF check_required_together(together, params)
                THEN fail_json("parameters are required together")
                ELSE Goto("main")
    /\ UNCHANGED <<input, waits, dry, resources, calls, res, changed, elapsed, error>>

\* _check_mode that never exits.
_check_mode_ignored == FALSE

\* _check_mode(module, result): in check mode the module exits at once,
\* reporting `result` as changed (the same in the three files).
_check_mode == check_mode


\* wait_for_resource_creation_completion: sleep wait_interval, poll the
\* resource's status, return once it has left the transitional state, raise
\* once wait_timeout has elapsed.  The exception lands in the caller's
\* `except Exception`.
PollOp == "get_" \o kind

AfterWait ==
    IF kind = "ssh_key"
      THEN IF params.state = "update" THEN "update_ssh_key_refresh" ELSE "create_ssh_key_refresh"
      ELSE "create_" \o kind \o "_finish"

\* The call wait_for_resource_creation_completion(conn, kind, resource_id,
\* wait_timeout, wait_interval): its arguments, the number of remote calls
\* issued before it, and the status polls it has made.
Invoke(resource_id, wait_timeout, wait_interval) ==
    /\ waits' = Append(waits, [resource_id |-> resource_id, wait_timeout |-> wait_timeout,
                               wait_interval |-> wait_interval, after |-> Len(calls'), polls |-> 0])
    /\ Goto("wait")

\* The waiter giving up one interval late.
TimedOutLate(w) == elapsed >= w.wait_timeout + w.wait_interval

\* The budget of the waiter is spent.
TimedOut(w) == elapsed >= w.wait_timeout

wait_for_resource_creation_completion ==
    /\ pc = "wait"
    /\ LET w == waits[Len(waits)]
       IN  IF ~TimedOut(w)
             THEN /\ elapsed' = elapsed + w.wait_interval
                  /\ waits' = [waits EXCEPT ![Len(waits)].polls = @ + 1]
                  /\ Issue(Call(PollOp, [NoArgs EXCEPT !.id = w.resource_id]))
                  /\ \/ Raise("RemoteError")
                     \/ error' = error /\ Goto("wait")
                     \/ error' = error /\ Goto(AfterWait)
             ELSE /\ Raise("TimeoutError")
                  /\ UNCHANGED <<elapsed, calls, waits>>
    /\ UNCHANGED <<input, dry, resources, res, changed>>

\* ------------------------------------------------------------ oneandone_block_storage.py
\* The module declared without its mutually_exclusive groups.
mutually_exclusive_none == {}

mutually_exclusive_block_storage == {{"attach", "detach"}}
required_together_block_storage == {<<"attach", "server_id">>}

AnsibleModule_block_storage ==
    /\ kind = "block_storage"
    /\ AnsibleModule(mutually_exclusive_block_storage, required_together_block_storage)

main_block_storage ==
    /\ pc = "main"
    /\ kind = "block_storage"
    /\ IF ~Truthy(params.auth_token)
         THEN fail_json("auth_token parameter is required.")
         ELSE CASE params.state = "absent" ->
                     IF ~Truthy(params.name)
                       THEN fail_json("'name' parameter is required to delete a block storage.")
                       ELSE Goto("remove_block_storage")
                [] params.state = "update" ->
                     IF ~Truthy(params.block_storage)
                       THEN fail_json("'block_storage' parameter is required to update a block storage.")
                       ELSE Goto("update_block_storage")
                [] params.state = "present" ->
                     IF ~Truthy(params.name)
                       THEN fail_json("name parameter is required for a new block storage.")
                       ELSE IF ~Truthy(params.size)
                              THEN fail_json("size parameter is required for a new block storage.")
                              ELSE Goto("create_block_storage")
    /\ UNCHANGED <<input, waits, dry, resources, calls, res, changed, elapsed, error>>

\* main reporting changed=True whatever the handler returned.
main_block_storage_exit_always_changed ==
    /\ pc = "return"
    /\ kind = "block_storage"
    /\ exit_json(PyBool(TRUE), res)
    /\ UNCHANGED <<input, waits, dry, resources, calls, res, changed, elapsed, error>>

main_block_storage_exit ==
    /\ pc = "return"
    /\ kind = "block_storage"
    /\ exit_json(PyBool(changed), res)
    /\ UNCHANGED <<input, waits, dry, resources, calls, res, changed, elapsed, error>>

update_block_storage_get ==
    /\ pc = "update_block_storage"
    /\ Issue(Call("get_block_storage", [NoArgs EXCEPT !.id = params.block_storage]))
    /\ \/ Raise("RemoteError") /\ UNCHANGED res
       \/ \E r \in Resolver(params.block_storage) :
            /\ res' = r
            /\ error' = error
            /\ IF r = NoneRes /\ _check_mode
                 THEN exit_json(PyBool(FALSE), NoneRes)
                 ELSE Goto("update_block_storage_modify")
    /\ UNCHANGED <<input, waits, dry, resources, changed, elapsed>>

update_block_storage_modify ==
    /\ pc = "update_block_storage_modify"
    /\ IF Truthy(params.name) \/ Truthy(params.description)
         THEN IF _check_mode
                THEN exit_json(PyBool(TRUE), NoneRes) /\ UNCHANGED <<calls, resources, res, changed, error>>
                ELSE IF ~Subscriptable(res)
                       THEN Raise("TypeError") /\ UNCHANGED <<calls, resources, res, changed>>
                       ELSE /\ Issue(Call("modify_block_storage",
                                          [NoArgs EXCEPT !.id = res.id, !.name = params.name, !.description = params.description]))
                            /\ \/ Raise("RemoteError") /\ UNCHANGED <<resources, res, changed>>
                               \/ LET new == Snapshot(res.id, IF params.name # None THEN params.name ELSE res.name)
                                  IN  /\ resources' = (resources \ Existing(res.id)) \cup {new}
                                      /\ res' = new
                                      /\ changed' = TRUE
                                      /\ error' = error
                                      /\ Goto("update_block_storage_attach")
         ELSE Goto("update_block_storage_attach") /\ UNCHANGED <<calls, resources, res, changed, error>>
    /\ UNCHANGED <<input, waits, dry, elapsed>>

update_block_storage_get_server ==
    /\ pc = "update_block_storage_attach"
    /\ params.attach
    /\ check_mode
    /\ Issue(Call("get_server", [NoArgs EXCEPT !.server_id = params.server_id]))
    /\ \/ Raise("RemoteError")
       \/ \E server \in {NoneRes, Snapshot(params.server_id, None)} :
            /\ error' = error
            /\ IF _check_mode
                 THEN exit_json(PyDict(server), NoneRes)
                 ELSE Goto("update_block_storage_attach_call")
    /\ UNCHANGED <<input, waits, dry, resources, res, changed, elapsed>>

update_block_storage_attach ==
    /\ \/ pc = "update_block_storage_attach" /\ ~(params.attach /\ check_mode)
       \/ pc = "update_block_storage_attach_call"
    /\ IF params.attach
         THEN IF ~Subscriptable(res)
                THEN Raise("TypeError") /\ UNCHANGED <<calls, res, changed>>
                ELSE /\ Issue(Call("attach_block_storage",
                                   [NoArgs EXCEPT !.id = res.id, !.server_id = params.server_id]))
                     /\ \/ Raise("RemoteError") /\ UNCHANGED <<res, changed>>
                        \/ /\ res' = res
                           /\ changed' = TRUE
                           /\ error' = error
                           /\ Goto("update_block_storage_detach")
         ELSE Goto("update_block_storage_detach") /\ UNCHANGED <<calls, res, changed, error>>
    /\ UNCHANGED <<input, waits, dry, resources, elapsed>>

update_block_storage_detach ==
    /\ pc = "update_block_storage_detach"
    /\ IF params.detach
         THEN IF _check_mode
                THEN exit_json(PyBool(TRUE), NoneRes) /\ UNCHANGED <<calls, error>>
                ELSE IF ~Subscriptable(res)
                       THEN Raise("TypeError") /\ UNCHANGED calls
                       ELSE /\ Issue(Call("detach_block_storage", [NoArgs EXCEPT !.id = res.id]))
                            /\ \/ Raise("RemoteError")
                               \/ error' = error /\ Goto("update_block_storage_refetch")
         ELSE Goto("return") /\ UNCHANGED <<calls, error>>
    /\ UNCHANGED <<input, waits, dry, resources, res, changed, elapsed>>

update_block_storage_refetch ==
    /\ pc = "update_block_storage_refetch"
    /\ IF _check_mode
         THEN exit_json(PyBool(FALSE), NoneRes) /\ UNCHANGED <<calls, res, changed, error>>
         ELSE /\ Issue(Call("get_block_storage", [NoArgs EXCEPT !.id = res.id]))
              /\ \/ Raise("RemoteError") /\ UNCHANGED <<res, changed>>
                 \/ \E r \in Resolver(res.id) :
                      /\ res' = r
                      /\ changed' = TRUE
                      /\ error' = error
                      /\ Goto("return")
    /\ UNCHANGED <<input, waits, dry, resources, elapsed>>

create_block_storage ==
    /\ pc = "create_block_storage"
    /\ IF _check_mode
         THEN exit_json(PyBool(TRUE), NoneRes) /\ UNCHANGED <<calls, resources, res, error, waits>>
         ELSE /\ Issue(Call("create_block_storage",
                            [NoArgs EXCEPT !.name = params.name, !.description = params.description,
                                           !.size = params.size, !.server_id = params.server_id]))
              /\ \/ Raise("RemoteError") /\ UNCHANGED <<resources, res, waits>>
                 \/ LET new == Snapshot(FreshId, params.name)
                    IN  /\ resources' = resources \cup {new}
                        /\ res' = new
                        /\ error' = error
                        /\ IF params.wait
                             THEN Invoke(new.id, params.wait_timeout, params.wait_interval)
                             ELSE Goto("create_block_storage_finish") /\ UNCHANGED waits
    /\ UNCHANGED <<input, dry, changed, elapsed>>

\* create_block_storage_finish with the test of `changed` inverted.
create_block_storage_finish_inverted ==
    /\ pc = "create_block_storage_finish"
    /\ changed' = (res.type = "NoneType")
    /\ IF _check_mode THEN exit_json(PyBool(FALSE), NoneRes) ELSE Goto("return")
    /\ UNCHANGED <<input, waits, dry, resources, calls, res, elapsed, error>>

create_block_storage_finish ==
    /\ pc = "create_block_storage_finish"
    /\ changed' = (res.type # "NoneType")
    /\ IF _check_mode THEN exit_json(PyBool(FALSE), NoneRes) ELSE Goto("return")
    /\ UNCHANGED <<input, waits, dry, resources, calls, res, elapsed, error>>

remove_block_storage_get ==
    /\ pc = "remove_block_storage"
    /\ Issue(Call("get_block_storage", [NoArgs EXCEPT !.id = params.name]))
    /\ \/ Raise("RemoteError") /\ UNCHANGED res
       \/ \E r \in Resolver(params.name) :
            /\ res' = r
            /\ error' = error
            /\ IF check_mode /\ _check_mode
                 THEN exit_json(PyBool(r # NoneRes), NoneRes)
                 ELSE Goto("remove_block_storage_delete")
    /\ UNCHANGED <<input, waits, dry, resources, changed, elapsed>>

remove_block_storage_delete ==
    /\ pc = "remove_block_storage_delete"
    /\ Issue(Call("delete_block_storage", [NoArgs EXCEPT !.id = res.id]))
    /\ \/ Raise("RemoteError") /\ UNCHANGED <<resources, res, changed>>
       \/ \E r \in Existing(res.id) :
            /\ resources' = resources \ {r}
            /\ res' = r
            /\ changed' = TRUE
            /\ error' = error
            /\ Goto("return")
    /\ UNCHANGED <<input, waits, dry, elapsed>>

\* ------------------------------------------------------------ oneandone_shared_storage.py
mutually_exclusive_shared_storage == {{"attach", "detach"}}
required_together_shared_storage == {<<"attach", "servers">>, <<"detach", "server_id">>}

AnsibleModule_shared_storage ==
    /\ kind = "shared_storage"
    /\ AnsibleModule(mutually_exclusive_shared_storage, required_together_shared_storage)

main_shared_storage ==
    /\ pc = "main"
    /\ kind = "shared_storage"
    /\ IF ~Truthy(params.auth_token)
         THEN fail_json("auth_token parameter is required.")
         ELSE CASE params.state = "absent" ->
                     IF ~Truthy(params.name)
                       THEN fail_json("'name' parameter is required to delete a shared storage.")
                       ELSE Goto("remove_shared_storage")
                [] params.state = "update" ->
                     IF ~Truthy(params.shared_storage)
                       THEN fail_json("'shared_storage' parameter is required to update a shared storage.")
                       ELSE Goto("update_shared_storage")
                [] params.state = "present" ->
                     IF ~Truthy(params.name)
                       THEN fail_json("name parameter is required for a new shared storage.")
                       ELSE IF ~Truthy(params.size)
                              THEN fail_json("size parameter is required for a new shared storage.")
                              ELSE Goto("create_shared_storage")
    /\ UNCHANGED <<input, waits, dry, resources, calls, res, changed, elapsed, error>>

main_shared_storage_exit ==
    /\ pc = "return"
    /\ kind = "shared_storage"
    /\ exit_json(PyBool(changed), res)
    /\ UNCHANGED <<input, waits, dry, resources, calls, res, changed, elapsed, error>>

update_shared_storage_get ==
    /\ pc = "update_shared_storage"
    /\ Issue(Call("get_shared_storage", [NoArgs EXCEPT !.id = params.shared_storage]))
    /\ \/ Raise("RemoteError") /\ UNCHANGED res
       \/ \E r \in Resolver(params.shared_storage) :
            /\ res' = r
            /\ error' = error
            /\ IF r = NoneRes /\ _check_mode
                 THEN exit_json(PyBool(FALSE), NoneRes)
                 ELSE Goto("update_shared_storage_modify")
    /\ UNCHANGED <<input, waits, dry, resources, changed, elapsed>>

update_shared_storage_modify ==
    /\ pc = "update_shared_storage_modify"
    /\ IF Truthy(params.name) \/ Truthy(params.description) \/ Truthy(params.size)
         THEN IF _check_mode
                THEN exit_json(PyBool(TRUE), NoneRes) /\ UNCHANGED <<calls, resources, res, changed, error>>
                ELSE IF ~Subscriptable(res)
                       THEN Raise("TypeError") /\ UNCHANGED <<calls, resources, res, changed>>
                       ELSE /\ Issue(Call("modify_shared_storage",
                                          [NoArgs EXCEPT !.id = res.id, !.name = params.name,
                                                         !.description = params.description, !.size = params.size]))
                            /\ \/ Raise("RemoteError") /\ UNCHANGED <<resources, res, changed>>
                               \/ LET new == Snapshot(res.id, IF params.name # None THEN params.name ELSE res.name)
                                  IN  /\ resources' = (resources \ Existing(res.id)) \cup {new}
                                      /\ res' = new
                                      /\ changed' = TRUE
                                      /\ error' = error
                                      /\ Goto("update_shared_storage_password")
         ELSE Goto("update_shared_storage_password") /\ UNCHANGED <<calls, resources, res, changed, error>>
    /\ UNCHANGED <<input, waits, dry, elapsed>>

\* change_password names no storage; what it returns (the access
\* credentials) replaces the local shared_storage.
update_shared_storage_password ==
    /\ pc = "update_shared_storage_password"
    /\ IF Truthy(params.password)
         THEN IF _check_mode
                THEN exit_json(PyBool(TRUE), NoneRes) /\ UNCHANGED <<calls, res, changed, error>>
                ELSE /\ Issue(Call("change_password", [NoArgs EXCEPT !.password = params.password]))
                     /\ \/ Raise("RemoteError") /\ UNCHANGED <<res, changed>>
                        \/ /\ res' = AccessList
                           /\ changed' = TRUE
                           /\ error' = error
                           /\ Goto("update_shared_storage_attach")
         ELSE Goto("update_shared_storage_attach") /\ UNCHANGED <<calls, res, changed, error>>
    /\ UNCHANGED <<input, waits, dry, resources, elapsed>>

\* update_shared_storage_attach handing the identifier the caller gave, not
\* the id of the storage it resolved to, to the attach call.
update_shared_storage_attach_by_identifier ==
    /\ pc = "update_shared_storage_attach"
    /\ IF params.attach
         THEN IF check_mode /\ _check_mode
                THEN exit_json(PyList(params.servers), NoneRes) /\ UNCHANGED <<calls, res, changed, error>>
                ELSE IF ~Subscriptable(res)
                       THEN Raise("TypeError") /\ UNCHANGED <<calls, res, changed>>
                       ELSE /\ Issue(Call("attach_server_shared_storage",
                                          [NoArgs EXCEPT !.id = params.shared_storage, !.servers = params.servers]))
                            /\ \/ Raise("RemoteError") /\ UNCHANGED <<res, changed>>
                               \/ /\ res' = res
                                  /\ changed' = TRUE
                                  /\ error' = error
                                  /\ Goto("update_shared_storage_detach")
         ELSE Goto("update_shared_storage_detach") /\ UNCHANGED <<calls, res, changed, error>>
    /\ UNCHANGED <<input, waits, dry, resources, elapsed>>

\* _attach_shared_storage, called by update_shared_storage.
update_shared_storage_attach ==
    /\ pc = "update_shared_storage_attach"
    /\ IF params.attach
         THEN IF check_mode /\ _check_mode
                THEN exit_json(PyList(params.servers), NoneRes) /\ UNCHANGED <<calls, res, changed, error>>
                ELSE IF ~Subscriptable(res)
                       THEN Raise("TypeError") /\ UNCHANGED <<calls, res, changed>>
                       ELSE /\ Issue(Call("attach_server_shared_storage",
                                          [NoArgs EXCEPT !.id = res.id, !.servers = params.servers]))
                            /\ \/ Raise("RemoteError") /\ UNCHANGED <<res, changed>>
                               \/ /\ res' = res
                                  /\ changed' = TRUE
                                  /\ error' = error
                                  /\ Goto("update_shared_storage_detach")
         ELSE Goto("update_shared_storage_detach") /\ UNCHANGED <<calls, res, changed, error>>
    /\ UNCHANGED <<input, waits, dry, resources, elapsed>>

update_shared_storage_get_server ==
    /\ pc = "update_shared_storage_detach"
    /\ params.detach
    /\ check_mode
    /\ Issue(Call("get_shared_storage_server", [NoArgs EXCEPT !.id = res.id, !.server_id = params.server_id]))
    /\ \/ Raise("RemoteError")
       \/ \E ss_server \in {NoneRes, Snapshot(params.server_id, None)} :
            /\ error' = error
            /\ IF _check_mode
                 THEN exit_json(PyDict(ss_server), NoneRes)
                 ELSE Goto("update_shared_storage_detach_call")
    /\ UNCHANGED <<input, waits, dry, resources, res, changed, elapsed>>

\* update_shared_storage_detach with the exception swallowed.
update_shared_storage_detach_swallowed ==
    /\ \/ pc = "update_shared_storage_detach" /\ ~(params.detach /\ check_mode)
       \/ pc = "update_shared_storage_detach_call"
    /\ IF params.detach
         THEN RaiseSwallowed("TypeError")
         ELSE Goto("return") /\ error' = error
    /\ UNCHANGED <<input, waits, dry, resources, calls, res, changed, elapsed>>

\* _detach_shared_storage(module, oneandone_conn, shared_storage_id, server_id)
\* is called with three arguments: evaluating the call raises TypeError
\* (of the subscript when shared_storage is no dict, of the missing argument
\* otherwise) and detach_server_shared_storage is never reached.
update_shared_storage_detach ==
    /\ \/ pc = "update_shared_storage_detach" /\ ~(params.detach /\ check_mode)
       \/ pc = "update_shared_storage_detach_call"
    /\ IF params.detach
         THEN Raise("TypeError")
         ELSE Goto("return") /\ error' = error
    /\ UNCHANGED <<input, waits, dry, resources, calls, res, changed, elapsed>>

\* create_shared_storage without the `if wait:` block.
create_shared_storage_nowait ==
    /\ pc = "create_shared_storage"
    /\ IF _check_mode
         THEN exit_json(PyBool(TRUE), NoneRes) /\ UNCHANGED <<calls, resources, res, error>>
         ELSE /\ Issue(Call("create_shared_storage",
                            [NoArgs EXCEPT !.name = params.name, !.description = params.description,
                                           !.size = params.size]))
              /\ \/ Raise("RemoteError") /\ UNCHANGED <<resources, res>>
                 \/ LET new == Snapshot(FreshId, params.name)
                    IN  /\ resources' = resources \cup {new}
                        /\ res' = new
                        /\ error' = error
                        /\ Goto("create_shared_storage_finish")
    /\ UNCHANGED <<input, waits, dry, changed, elapsed>>

create_shared_storage ==
    /\ pc = "create_shared_storage"
    /\ IF _check_mode
         THEN exit_json(PyBool(TRUE), NoneRes) /\ UNCHANGED <<calls, resources, res, error, waits>>
         ELSE /\ Issue(Call("create_shared_storage",
                            [NoArgs EXCEPT !.name = params.name, !.description = params.description,
                                           !.size = params.size]))
              /\ \/ Raise("RemoteError") /\ UNCHANGED <<resources, res, waits>>
                 \/ LET new == Snapshot(FreshId, params.name)
                    IN  /\ resources' = resources \cup {new}
                        /\ res' = new
                        /\ error' = error
                        /\ IF params.wait
                             THEN Invoke(new.id, params.wait_timeout, params.wait_interval)
                             ELSE Goto("create_shared_storage_finish") /\ UNCHANGED waits
    /\ UNCHANGED <<input, dry, changed, elapsed>>

create_shared_storage_finish ==
    /\ pc = "create_shared_storage_finish"
    /\ changed' = (res.type # "NoneType")
    /\ IF _check_mode THEN exit_json(PyBool(FALSE), NoneRes) ELSE Goto("return")
    /\ UNCHANGED <<input, waits, dry, resources, calls, res, elapsed, error>>

remove_shared_storage_get ==
    /\ pc = "remove_shared_storage"
    /\ Issue(Call("get_shared_storage", [NoArgs EXCEPT !.id = params.name]))
    /\ \/ Raise("RemoteError") /\ UNCHANGED res
       \/ \E r \in Resolver(params.name) :
            /\ res' = r
            /\ error' = error
            /\ IF check_mode /\ _check_mode
                 THEN exit_json(PyBool(r # NoneRes), NoneRes)
                 ELSE Goto("remove_shared_storage_delete")
    /\ UNCHANGED <<input, waits, dry, resources, changed, elapsed>>

remove_shared_storage_delete ==
    /\ pc = "remove_shared_storage_delete"
    /\ Issue(Call("delete_shared_storage", [NoArgs EXCEPT !.id = res.id]))
    /\ \/ Raise("RemoteError") /\ UNCHANGED <<resources, res, changed>>
       \/ \E r \in Existing(res.id) :
            /\ resources' = resources \ {r}
            /\ res' = r
            /\ changed' = TRUE
            /\ error' = error
            /\ Goto("return")
    /\ UNCHANGED <<input, waits, dry, elapsed>>

\* ------------------------------------------------------------ oneandone_ssh_key.py
AnsibleModule_ssh_key ==
    /\ kind = "ssh_key"
    /\ AnsibleModule({}, {})

main_ssh_key ==
    /\ pc = "main"
    /\ kind = "ssh_key"
    /\ IF ~Truthy(params.auth_token)
         THEN fail_json("auth_token parameter is required.")
         ELSE CASE params.state = "absent" ->
                     IF ~Truthy(params.ssh_key_id)
                       THEN fail_json("'ssh_key_id' parameter is required to delete a SSH key.")
                       ELSE Goto("delete_ssh_key")
                [] params.state = "update" ->
                     IF ~Truthy(params.ssh_key_id)
                       THEN fail_json("'ssh_key_id' parameter is required to update a SSH key.")
                       ELSE Goto("update_ssh_key")
                [] params.state = "present" -> Goto("create_ssh_key")
    /\ UNCHANGED <<input, waits, dry, resources, calls, res, changed, elapsed, error>>

main_ssh_key_exit ==
    /\ pc = "return"
    /\ kind = "ssh_key"
    /\ exit_json(PyBool(changed), res)
    /\ UNCHANGED <<input, waits, dry, resources, calls, res, changed, elapsed, error>>

create_ssh_key ==
    /\ pc = "create_ssh_key"
    /\ IF _check_mode
         THEN exit_json(PyStr(params.name), NoneRes) /\ UNCHANGED <<calls, resources, res, error, waits>>
         ELSE /\ Issue(Call("create_ssh_key",
                            [NoArgs EXCEPT !.name = params.name, !.description = params.description]))
              /\ \/ Raise("RemoteError") /\ UNCHANGED <<resources, res, waits>>
                 \/ LET new == Snapshot(FreshId, params.name)
                    IN  /\ resources' = resources \cup {new}
                        /\ res' = new
                        /\ error' = error
                        /\ IF params.wait
                             THEN Invoke(new.id, params.wait_timeout, params.wait_interval)
                             ELSE Goto("create_ssh_key_finish") /\ UNCHANGED waits
    /\ UNCHANGED <<input, dry, changed, elapsed>>

\* ssh_key = oneandone_conn.get_ssh_key(ssh_key['id']) after the wait.
create_ssh_key_refresh ==
    /\ pc = "create_ssh_key_refresh"
    /\ Issue(Call("get_ssh_key", [NoArgs EXCEPT !.id = res.id]))
    /\ \/ Raise("RemoteError") /\ UNCHANGED res
       \/ \E r \in Existing(res.id) :
            /\ res' = r
            /\ error' = error
            /\ Goto("create_ssh_key_finish")
    /\ UNCHANGED <<input, waits, dry, resources, changed, elapsed>>

create_ssh_key_finish ==
    /\ pc = "create_ssh_key_finish"
    /\ changed' = (res.type # "NoneType")
    /\ Goto("return")
    /\ UNCHANGED <<input, waits, dry, resources, calls, res, elapsed, error>>

update_ssh_key_get ==
    /\ pc = "update_ssh_key"
    /\ Issue(Call("get_ssh_key", [NoArgs EXCEPT !.id = params.ssh_key]))
    /\ \/ Raise("RemoteError") /\ UNCHANGED res
       \/ \E r \in Resolver(params.ssh_key) :
            /\ res' = r
            /\ error' = error
            /\ IF r = NoneRes
                 THEN IF _check_mode
                        THEN exit_json(PyBool(FALSE), NoneRes)
                        ELSE fail_json("SSH key not found.")
                 ELSE Goto("update_ssh_key_modify")
    /\ UNCHANGED <<input, waits, dry, resources, changed, elapsed>>

update_ssh_key_modify ==
    /\ pc = "update_ssh_key_modify"
    /\ IF _check_mode
         THEN exit_json(PyBool(TRUE), NoneRes) /\ UNCHANGED <<calls, resources, res, error, waits>>
         ELSE /\ Issue(Call("modify_ssh_key",
                            [NoArgs EXCEPT !.id = res.id, !.name = params.name, !.description = params.description]))
              /\ \/ Raise("RemoteError") /\ UNCHANGED <<resources, res, waits>>
                 \/ LET new == Snapshot(res.id, IF params.name # None THEN params.name ELSE res.name)
                    IN  /\ resources' = (resources \ Existing(res.id)) \cup {new}
                        /\ res' = new
                        /\ error' = error
                        /\ IF params.wait
                             THEN Invoke(new.id, params.wait_timeout, params.wait_interval)
                             ELSE Goto("update_ssh_key_finish") /\ UNCHANGED waits
    /\ UNCHANGED <<input, dry, changed, elapsed>>

update_ssh_key_refresh ==
    /\ pc = "update_ssh_key_refresh"
    /\ Issue(Call("get_ssh_key", [NoArgs EXCEPT !.id = res.id]))
    /\ \/ Raise("RemoteError") /\ UNCHANGED res
       \/ \E r \in Existing(res.id) :
            /\ res' = r
            /\ error' = error
            /\ Goto("update_ssh_key_finish")
    /\ UNCHANGED <<input, waits, dry, resources, changed, elapsed>>

update_ssh_key_finish ==
    /\ pc = "update_ssh_key_finish"
    /\ changed' = (res.type # "NoneType")
    /\ Goto("return")
    /\ UNCHANGED <<input, waits, dry, resources, calls, res, elapsed, error>>

\* delete_ssh_key_get without the test for a key that was not found.
delete_ssh_key_get_unchecked ==
    /\ pc = "delete_ssh_key"
    /\ Issue(Call("get_ssh_key", [NoArgs EXCEPT !.id = params.ssh_key_id]))
    /\ \/ Raise("RemoteError") /\ UNCHANGED res
       \/ \E r \in Resolver(params.ssh_key_id) :
            /\ res' = r
            /\ error' = error
            /\ Goto("delete_ssh_key_delete")
    /\ UNCHANGED <<input, waits, dry, resources, changed, elapsed>>

delete_ssh_key_get ==
    /\ pc = "delete_ssh_key"
    /\ Issue(Call("get_ssh_key", [NoArgs EXCEPT !.id = params.ssh_key_id]))
    /\ \/ Raise("RemoteError") /\ UNCHANGED res
       \/ \E r \in Resolver(params.ssh_key_id) :
            /\ res' = r
            /\ error' = error
            /\ IF r = NoneRes
                 THEN IF _check_mode
                        THEN exit_json(PyBool(FALSE), NoneRes)
                        ELSE fail_json("SSH key not found.")
                 ELSE Goto("delete_ssh_key_delete")
    /\ UNCHANGED <<input, waits, dry, resources, changed, elapsed>>

delete_ssh_key_delete ==
    /\ pc = "delete_ssh_key_delete"
    /\ IF _check_mode
         THEN exit_json(PyBool(TRUE), NoneRes) /\ UNCHANGED <<calls, resources, res, changed, error>>
         ELSE /\ Issue(Call("delete_ssh_key", [NoArgs EXCEPT !.id = res.id]))
              /\ \/ Raise("RemoteError") /\ UNCHANGED <<resources, res, changed>>
                 \/ \E r \in Existing(res.id) :
                      /\ resources' = resources \ {r}
                      /\ res' = r
                      /\ changed' = TRUE
                      /\ error' = error
                      /\ Goto("return")
    /\ UNCHANGED <<input, waits, dry, elapsed>>

\* ------------------------------------------------------------ the invocations
\* The provider's resources before the invocation: any subset of the names.
Providers == {{Snapshot(IdOf(n), n) : n \in S} : S \in SUBSET Names}

\* wait, wait_timeout, wait_interval; the timeouts do not matter without wait.
WaitPolicies ==
    {<<FALSE, MaxWait, 1>>} \cup {<<TRUE, t, i>> : t \in 1..MaxWait, i \in 1..MaxWait}

\* The parameters no state of a module reads take their defaults.
Defaults ==
    [auth_token |-> Given, state |-> "present", name |-> None, description |-> None,
     size |-> None, server_id |-> None, attach |-> FALSE, detach |-> FALSE,
     wait |-> TRUE, wait_timeout |-> MaxWait, wait_interval |-> 1,
     block_storage |-> None, shared_storage |-> None, ssh_key |-> None,
     ssh_key_id |-> None, servers |-> <<>>, password |-> None]

Sizes == {None, 0, 20}

\* attach, detach, server_id where only the argument checks read them.
AttachArgs == BOOLEAN \X BOOLEAN \X OptGiven

ParamsBlockStorage ==
    {[Defaults EXCEPT !.auth_token = tok, !.state = "present", !.name = n, !.description = d,
                      !.size = s, !.wait = w[1], !.wait_timeout = w[2], !.wait_interval = w[3],
                      !.attach = a[1], !.detach = a[2], !.server_id = a[3]] :
        tok \in OptGiven, n \in OptNames, d \in OptGiven, s \in Sizes, w \in WaitPolicies, a \in AttachArgs}
    \cup
    {[Defaults EXCEPT !.auth_token = tok, !.state = "absent", !.name = n,
                      !.attach = a[1], !.detach = a[2], !.server_id = a[3]] :
        tok \in OptGiven, n \in OptIdents, a \in AttachArgs}
    \cup
    {[Defaults EXCEPT !.auth_token = tok, !.state = "update", !.block_storage = b, !.name = n,
                      !.description = d, !.server_id = sv, !.attach = at, !.detach = dt] :
        tok \in OptGiven, b \in OptIdents, n \in OptNames, d \in OptGiven, sv \in OptGiven,
        at \in BOOLEAN, dt \in BOOLEAN}

ServerLists == {<<>>, <<[id |-> Given, rights |-> "R"]>>}

ParamsSharedStorage ==
    {[Defaults EXCEPT !.auth_token = tok, !.state = "present", !.name = n, !.description = d,
                      !.size = s, !.wait = w[1], !.wait_timeout = w[2], !.wait_interval = w[3],
                      !.attach = a[1], !.detach = a[2], !.server_id = a[3], !.servers = sl] :
        tok \in OptGiven, n \in OptNames, d \in OptGiven, s \in Sizes, w \in WaitPolicies,
        a \in AttachArgs, sl \in ServerLists}
    \cup
    {[Defaults EXCEPT !.auth_token = tok, !.state = "absent", !.name = n,
                      !.attach = a[1], !.detach = a[2], !.server_id = a[3], !.servers = sl] :
        tok \in OptGiven, n \in OptIdents, a \in AttachArgs, sl \in ServerLists}
    \cup
    {[Defaults EXCEPT !.auth_token = tok, !.state = "update", !.shared_storage = b, !.name = n,
                      !.description = d, !.size = s, !.password = pw, !.servers = sl,
                      !.attach = a[1], !.detach = a[2], !.server_id = a[3]] :
        tok \in OptGiven, b \in OptIdents, n \in OptNames, d \in OptGiven, s \in Sizes,
        pw \in OptGiven, sl \in ServerLists, a \in AttachArgs}

ParamsSshKey ==
    {[Defaults EXCEPT !.auth_token = tok, !.state = "present", !.name = n, !.description = d,
                      !.wait = w[1], !.wait_timeout = w[2], !.wait_interval = w[3]] :
        tok \in OptGiven, n \in OptNames, d \in OptGiven, w \in WaitPolicies}
    \cup
    {[Defaults EXCEPT !.auth_token = tok, !.state = "absent", !.ssh_key_id = k] :
        tok \in OptGiven, k \in OptIdents}
    \cup
    {[Defaults EXCEPT !.auth_token = tok, !.state = "update", !.ssh_key = k, !.ssh_key_id = kid,
                      !.name = n, !.description = d,
                      !.wait = w[1], !.wait_timeout = w[2], !.wait_interval = w[3]] :
        tok \in OptGiven, k \in OptIdents, kid \in OptIdents, n \in OptNames, d \in OptGiven,
        w \in WaitPolicies}

ParamsOf(k) ==
    CASE k = "block_storage" -> ParamsBlockStorage
      [] k = "shared_storage" -> ParamsSharedStorage
      [] k = "ssh_key" -> ParamsSshKey

Init ==
    /\ kind \in {"block_storage", "shared_storage", "ssh_key"}
    /\ params \in ParamsOf(kind)
    /\ check_mode \in BOOLEAN
    /\ before \in Providers
    /\ resources = before
    /\ calls = <<>>
    /\ pc = "AnsibleModule"
    /\ res = NoneRes
    /\ changed = FALSE
    /\ elapsed = 0
    /\ error = "none"
    /\ exit = Running
    /\ waits = <<>>
    /\ dry = Running

NextBlockStorage ==
    \/ AnsibleModule_block_storage
    \/ main_block_storage
    \/ main_block_storage_exit
    \/ update_block_storage_get
    \/ update_block_storage_modify
    \/ update_block_storage_get_server
    \/ update_block_storage_attach
    \/ update_block_storage_detach
    \/ update_block_storage_refetch
    \/ create_block_storage
    \/ create_block_storage_finish
    \/ remove_block_storage_get
    \/ remove_block_storage_delete

NextSharedStorage ==
    \/ AnsibleModule_shared_storage
    \/ main_shared_storage
    \/ main_shared_storage_exit
    \/ update_shared_storage_get
    \/ update_shared_storage_modify
    \/ update_shared_storage_password
    \/ update_shared_storage_attach
    \/ update_shared_storage_get_server
    \/ update_shared_storage_detach
    \/ create_shared_storage
    \/ create_shared_storage_finish
    \/ remove_shared_storage_get
    \/ remove_shared_storage_delete

NextSshKey ==
    \/ AnsibleModule_ssh_key
    \/ main_ssh_key
    \/ main_ssh_key_exit
    \/ create_ssh_key
    \/ create_ssh_key_refresh
    \/ create_ssh_key_finish
    \/ update_ssh_key_get
    \/ update_ssh_key_modify
    \/ update_ssh_key_refresh
    \/ update_ssh_key_finish
    \/ delete_ssh_key_get
    \/ delete_ssh_key_delete

Next ==
    \/ NextBlockStorage
    \/ NextSharedStorage
    \/ NextSshKey
    \/ wait_for_resource_creation_completion

Spec == Init /\ [][Next]_vars

\* The invocations of the two storage modules alone.
InitStorage == Init /\ kind # "ssh_key"

NextStorage ==
    \/ NextBlockStorage
    \/ NextSharedStorage
    \/ wait_for_resource_creation_completion

SpecStorage == InitStorage /\ [][NextStorage]_vars

\* The task run with --check and then, against the same provider, without:
\* main starts again with the same parameters, and how the check-mode run
\* ended is kept in `dry`.
Replay ==
    /\ pc = "exited"
    /\ check_mode
    /\ dry = Running
    /\ dry' = exit
    /\ check_mode' = FALSE
    /\ calls' = <<>>
    /\ pc' = "AnsibleModule"
    /\ res' = NoneRes
    /\ changed' = FALSE
    /\ elapsed' = 0
    /\ error' = "none"
    /\ exit' = Running
    /\ waits' = <<>>
    /\ UNCHANGED <<kind, params, before, resources>>

InitReplay == Init /\ check_mode

NextReplay ==
    \/ Next
    \/ Replay

SpecReplay == InitReplay /\ [][NextReplay]_vars

\* ------------------------------------------------------------ properties
Done == pc = "exited"
Succeeded == exit.code = "exit_json"
Failed == exit.code = "fail_json"

MutatingCalls == SelectSeq(calls, Mutating)
CallsOf(ops) == SelectSeq(calls, LAMBDA c : c.op \in ops)

CreateOps == {"create_block_storage", "create_shared_storage", "create_ssh_key"}
DeleteOps == {"delete_block_storage", "delete_shared_storage", "delete_ssh_key"}

\* The invocation passes the argument checks of AnsibleModule and has a token.
ArgumentsAccepted ==
    /\ Truthy(params.auth_token)
    /\ ~(params.attach /\ params.detach)
    /\ kind = "block_storage" => (params.attach => params.server_id # None)
    /\ kind = "shared_storage" =>
         /\ params.attach => params.servers # <<>>
         /\ params.detach => params.server_id # None

\* What the identifier named before the invocation: the resources, or None.
Named(ident) ==
    LET found == {r \in before : ident \in {r.id, r.name}}
    IN  IF found = {} THEN {NoneRes} ELSE found

\* The identifier state=absent reads.
AbsentTarget == IF kind = "ssh_key" THEN params.ssh_key_id ELSE params.name

\* C1: in check mode no invocation, of any module, state, parameters and
\* provider state, ever issues a mutating remote call.
C1_CheckModeNeverMutates == check_mode => MutatingCalls = <<>>

\* A check-mode invocation that read the provider and ended reporting that
\* it would change something.
C1_Witness ==
    /\ check_mode
    /\ Done
    /\ Succeeded
    /\ exit.changed = PyBool(TRUE)
    /\ calls # <<>>

\* C2: state=absent with an identifier that names no resource issues no
\* delete call and, unless a remote read fails, ends in success with
\* changed=false.
C2_AbsentOnMissingIsNoOp ==
    (params.state = "absent" /\ ArgumentsAccepted /\ Truthy(AbsentTarget)
        /\ Named(AbsentTarget) = {NoneRes})
    => /\ CallsOf(DeleteOps) = <<>>
       /\ (Done /\ error = "none") => (Succeeded /\ exit.changed = PyBool(FALSE))

\* C3: state=present with the name of a resource that exists issues no
\* mutating call and reports changed=false.
C3_PresentOnExistingIsNoOp ==
    (params.state = "present" /\ Truthy(params.name)
        /\ \E r \in before : r.name = params.name)
    => /\ MutatingCalls = <<>>
       /\ (Done /\ Succeeded) => exit.changed = PyBool(FALSE)

\* The SSH key module was asked to delete a key that the resolver did not find.
SshKeyAbsentNotFound ==
    /\ kind = "ssh_key"
    /\ params.state = "absent"
    /\ Truthy(params.auth_token)
    /\ Truthy(params.ssh_key_id)
    /\ Named(params.ssh_key_id) = {NoneRes}

\* C4 as stated: whenever the SSH key module is asked to delete a key the
\* resolver does not find, it ends in the not-found failure, with no delete
\* call and never changed=true.
C4_NotFoundAlwaysFails ==
    SshKeyAbsentNotFound
    => /\ CallsOf(DeleteOps) = <<>>
       /\ (Done /\ error = "none") =>
            /\ Failed
            /\ exit.msg = "SSH key not found."
            /\ ~exit.changed.truth

\* C4 amended: in normal mode it ends in the not-found failure; in check
\* mode it ends in success with changed=false; in both no delete call is
\* issued and changed=true is never reported.
C4_NotFoundFailsInNormalMode ==
    SshKeyAbsentNotFound
    => /\ CallsOf(DeleteOps) = <<>>
       /\ (Done /\ error = "none") =>
            /\ ~exit.changed.truth
            /\ ~check_mode => (Failed /\ exit.msg = "SSH key not found.")
            /\ check_mode => (Succeeded /\ exit.changed = PyBool(FALSE))

C4_Witness ==
    /\ SshKeyAbsentNotFound
    /\ ~check_mode
    /\ Done
    /\ Failed
    /\ exit.msg = "SSH key not found."
    /\ Len(calls) = 1

\* C5: a storage invocation that asks for attach and detach together is
\* rejected by the argument check: it issues no remote call at all, and it
\* ends in the mutually-exclusive failure.
C5_AttachAndDetachRejected ==
    (kind \in {"block_storage", "shared_storage"} /\ params.attach /\ params.detach)
    => /\ calls = <<>>
       /\ pc \in {"AnsibleModule", "exited"}
       /\ Done => (Failed /\ exit.msg = "parameters are mutually exclusive")

C5_Witness ==
    /\ kind = "block_storage"
    /\ params.attach
    /\ params.detach
    /\ params.server_id # None
    /\ Truthy(params.auth_token)
    /\ params.state = "update"
    /\ Done
    /\ Failed

\* A normal-mode block storage invocation with state=present, a name that no
\* resource has and a size.
C6Case ==
    /\ kind = "block_storage"
    /\ ~check_mode
    /\ params.state = "present"
    /\ ArgumentsAccepted
    /\ Truthy(params.name)
    /\ Truthy(params.size)
    /\ ~\E r \in before : r.name = params.name

\* C6: when the create call succeeds and the wait, if enabled, completes,
\* such an invocation has issued exactly one create call, for the requested
\* name, and no other mutating call, and ends in success with changed=true
\* and the snapshot the create call returned.
C6_CreateBlockStorage ==
    (C6Case /\ Done /\ error = "none")
    => /\ MutatingCalls = <<Call("create_block_storage",
                                [NoArgs EXCEPT !.name = params.name, !.description = params.description,
                                               !.size = params.size, !.server_id = params.server_id])>>
       /\ Succeeded
       /\ exit.changed = PyBool(TRUE)
       /\ exit.resource = Snapshot(FreshId, params.name)

\* The create succeeded and the waiter polled more than once before the
\* resource was ready.
C6_Witness ==
    /\ C6Case
    /\ Done
    /\ error = "none"
    /\ params.wait
    /\ elapsed > params.wait_interval
    /\ Succeeded

\* A normal-mode shared storage update of an existing storage that asks for
\* attach with a server list, and for nothing else.
C7Case ==
    /\ kind = "shared_storage"
    /\ ~check_mode
    /\ params.state = "update"
    /\ ArgumentsAccepted
    /\ params.attach
    /\ params.servers # <<>>
    /\ ~params.detach
    /\ ~Truthy(params.name)
    /\ ~Truthy(params.description)
    /\ ~Truthy(params.size)
    /\ ~Truthy(params.password)
    /\ Named(params.shared_storage) # {NoneRes}

\* C7: the only mutating call such an invocation issues is one attach call,
\* with the id of the resolved storage and exactly the given server list;
\* when no remote call fails it issues that call and ends in success, and
\* every success reports changed=true.
C7_AttachSharedStorage ==
    C7Case
    => LET attachCalls == {Call("attach_server_shared_storage",
                                [NoArgs EXCEPT !.id = r.id, !.servers = params.servers]) :
                             r \in Named(params.shared_storage)}
       IN  /\ Len(MutatingCalls) <= 1
           /\ \A i \in 1..Len(MutatingCalls) : MutatingCalls[i] \in attachCalls
           /\ (Done /\ error = "none") => (Len(MutatingCalls) = 1 /\ Succeeded)
           /\ (Done /\ Succeeded) => (Len(MutatingCalls) = 1 /\ exit.changed = PyBool(TRUE))

\* The storage was named by its name, and the attach went through.
C7_Witness ==
    /\ C7Case
    /\ params.shared_storage \in Names
    /\ Done
    /\ Succeeded
    /\ exit.changed = PyBool(TRUE)
    /\ Len(MutatingCalls) = 1

\* C8: a normal-mode shared storage update of an existing storage with
\* detach=true and a server_id issues exactly one detach call, for that
\* storage and that server, and, unless a remote call fails, ends in success
\* with changed=true.
C8_DetachSharedStorage ==
    (kind = "shared_storage" /\ ~check_mode /\ params.state = "update" /\ ArgumentsAccepted
        /\ params.detach /\ params.server_id # None
        /\ ~Truthy(params.password)
        /\ Named(params.shared_storage) # {NoneRes}
        /\ Done /\ error # "RemoteError")
    => /\ Len(CallsOf({"detach_server_shared_storage"})) = 1
       /\ \A i \in 1..Len(calls) :
            calls[i].op = "detach_server_shared_storage"
            => /\ calls[i].args.server_id = params.server_id
               /\ \E r \in Named(params.shared_storage) : r.id = calls[i].args.id
       /\ Succeeded
       /\ exit.changed = PyBool(TRUE)

\* C9: an SSH key update that names the key by ssh_key, without ssh_key_id,
\* and gives a new name or description is not rejected for a missing
\* parameter, and, unless a remote call fails, issues the modify call for the
\* key that ssh_key resolves to.
C9_UpdateSshKeyBySshKey ==
    (kind = "ssh_key" /\ ~check_mode /\ params.state = "update" /\ Truthy(params.auth_token)
        /\ Truthy(params.ssh_key) /\ params.ssh_key_id = None
        /\ (Truthy(params.name) \/ Truthy(params.description))
        /\ Named(params.ssh_key) # {NoneRes}
        /\ Done)
    => /\ exit.msg # "'ssh_key_id' parameter is required to update a SSH key."
       /\ error = "none" => Len(CallsOf({"modify_ssh_key"})) = 1

\* C10: once a remote call has raised, or the completion wait has timed out,
\* the invocation has ended in fail_json carrying the error's message; it
\* goes on to no further step and never ends in exit_json.
C10_ErrorsEndInFailure ==
    error \in {"RemoteError", "TimeoutError"}
    => /\ Done
       /\ Failed
       /\ exit.msg = error

\* The wait timed out after the mutating call had gone through.
C10_Witness ==
    /\ error = "TimeoutError"
    /\ Done
    /\ Failed
    /\ MutatingCalls # <<>>

\* The identifier state=update reads.
UpdateTarget ==
    CASE kind = "block_storage" -> params.block_storage
      [] kind = "shared_storage" -> params.shared_storage
      [] kind = "ssh_key" -> params.ssh_key

\* A parameter the selected state requires was not given.
MissingRequired ==
    \/ ~Truthy(params.auth_token)
    \/ params.state = "present" /\ kind # "ssh_key" /\ (~Truthy(params.name) \/ ~Truthy(params.size))
    \/ params.state = "absent" /\ ~Truthy(AbsentTarget)
    \/ params.state = "update" /\ ~Truthy(UpdateTarget)

\* C11: an invocation that lacks a parameter its state requires (the token;
\* name or size for a new storage; the target of absent or update) issues no
\* remote call at all and ends in failure.
C11_MissingParameterRejected ==
    MissingRequired
    => /\ calls = <<>>
       /\ Done => Failed

ModifyOps == {"modify_block_storage", "modify_shared_storage", "modify_ssh_key"}
AttachOps == {"attach_block_storage", "attach_server_shared_storage"}
DetachOps == {"detach_block_storage", "detach_server_shared_storage"}

\* C12: a normal-mode state=present invocation calls the completion waiter
\* only if wait is set, at most once, right after the create call, with the
\* id the create call returned and the configured wait_timeout and
\* wait_interval; with wait set it has called it once the create call has
\* returned, and so before any success is reported.
C12_WaiterOncePerCreate ==
    (~check_mode /\ params.state = "present")
    => /\ ~params.wait => waits = <<>>
       /\ Len(waits) <= 1
       /\ \A i \in 1..Len(waits) :
            /\ waits[i].after = Len(CallsOf(CreateOps))
            /\ waits[i].after = 1
            /\ calls[waits[i].after].op \in CreateOps
            /\ waits[i].resource_id = FreshId
            /\ waits[i].wait_timeout = params.wait_timeout
            /\ waits[i].wait_interval = params.wait_interval
       /\ (params.wait /\ CallsOf(CreateOps) # <<>> /\ error = "none") => Len(waits) = 1
       /\ (params.wait /\ Done /\ Succeeded) => (Len(waits) = 1 /\ waits[1].polls >= 1)

\* A shared storage was created and the waiter polled twice before it was ready.
C12_Witness ==
    /\ kind = "shared_storage"
    /\ ~check_mode
    /\ params.state = "present"
    /\ params.wait
    /\ Done
    /\ Succeeded
    /\ Len(waits) = 1
    /\ waits[1].polls >= 2

\* C13: a normal-mode state=update invocation with wait set that issued a
\* modify, attach or detach call and ended in success has called the
\* completion waiter.
C13_WaiterAfterUpdate ==
    (~check_mode /\ params.state = "update" /\ params.wait /\ Done /\ Succeeded
        /\ CallsOf(ModifyOps \cup AttachOps \cup DetachOps) # <<>>)
    => waits # <<>>

\* The completion waiter was called with a wait_timeout below its wait_interval.
C14Case ==
    /\ params.wait
    /\ params.wait_timeout < params.wait_interval
    /\ waits # <<>>

C15Case ==
    /\ kind \in {"block_storage", "shared_storage"}
    /\ ~check_mode
    /\ params.state = "update"

\* The place of a mutating call in the order modify, change-password, attach, detach.
SubActionRank(op) ==
    CASE op \in ModifyOps -> 1
      [] op = "change_password" -> 2
      [] op \in AttachOps -> 3
      [] op \in DetachOps -> 4
      [] OTHER -> 0

\* C15: in a normal-mode storage update the mutating calls are issued in the
\* order modify, change-password, attach, detach, each at most once; once a
\* sub-action has raised the invocation has ended in failure, with the calls
\* of the earlier sub-actions issued, and no remote call follows the failure.
C15_FixedOrderNoRollback ==
    /\ [](C15Case =>
            /\ \A i, j \in 1..Len(MutatingCalls) :
                 i < j => /\ SubActionRank(MutatingCalls[i].op) >= 1
                          /\ SubActionRank(MutatingCalls[i].op) < SubActionRank(MutatingCalls[j].op)
            /\ error # "none" => (Done /\ Failed))
    /\ [][(C15Case /\ error # "none") => calls' = calls]_vars

\* A second sub-action went through and the invocation then failed.
C15_Witness ==
    /\ C15Case
    /\ error # "none"
    /\ Done
    /\ Failed
    /\ Len(MutatingCalls) >= 2

\* No sub-action of update was asked for.
NoSubAction ==
    /\ ~Truthy(params.name)
    /\ ~Truthy(params.description)
    /\ ~Truthy(params.size)
    /\ ~Truthy(params.password)
    /\ ~params.attach
    /\ ~params.detach

\* C16: a normal-mode update of an existing resource that asks for no
\* sub-action issues no mutating call and, unless a remote read fails, ends
\* in success with changed=false (the SSH key module is given ssh_key_id as
\* well, which its main asks for).
C16_UpdateWithNothingToDo ==
    (~check_mode /\ params.state = "update" /\ Truthy(params.auth_token)
        /\ Truthy(UpdateTarget) /\ Named(UpdateTarget) # {NoneRes}
        /\ (kind = "ssh_key" => Truthy(params.ssh_key_id))
        /\ NoSubAction)
    => /\ MutatingCalls = <<>>
       /\ (Done /\ error = "none") => (Succeeded /\ exit.changed = PyBool(FALSE))

\* C17: every success exit, in check mode and in normal mode, reports a
\* boolean as changed.
C17_ChangedIsBoolean == (Done /\ Succeeded) => exit.changed.type = "bool"

\* C18: when the task is run in check mode and then in normal mode against
\* the same provider, and no remote call fails, a normal-mode success
\* reports the changed value the check-mode run reported, and a check-mode
\* changed=true is followed by a normal-mode run that issues a mutating call
\* (stated for the check-mode runs that report a boolean).
C18_DryRunFidelity ==
    (~check_mode /\ dry.code = "exit_json" /\ dry.changed.type = "bool" /\ Done /\ error = "none")
    => /\ Succeeded => exit.changed = dry.changed
       /\ dry.changed = PyBool(TRUE) => MutatingCalls # <<>>

\* C19: a normal-mode update whose target names no resource issues no
\* mutating call, whatever sub-actions it asks for.
C19_UpdateOnMissingTarget ==
    (~check_mode /\ params.state = "update" /\ Truthy(UpdateTarget)
        /\ Named(UpdateTarget) = {NoneRes})
    => MutatingCalls = <<>>

\* C20: a normal-mode success that reports changed=true has issued at least
\* one mutating call, and no call of the invocation has raised.
C20_ChangedOnlyIfMutated ==
    (~check_mode /\ Done /\ Succeeded /\ exit.changed.truth)
    => /\ MutatingCalls # <<>>
       /\ error = "none"

\* A delete went through and was reported.
C20_Witness ==
    /\ ~check_mode
    /\ params.state = "absent"
    /\ Done
    /\ Succeeded
    /\ exit.changed = PyBool(TRUE)
    /\ Len(MutatingCalls) = 1
    /\ resources # before

=============================================================================
